---- MODULE Spec2Model ----
(***************************************************************************)
(* Matching agents to capacity-limited localities (pgoelz/migration).      *)
(*                                                                         *)
(* models.py: the utility models (check_valid_matching, the additive model *)
(* and the three sampled, memoized models).  methods.py: the optimizers    *)
(* greedy_algorithm, additive_optimization and best_of_random.             *)
(*                                                                         *)
(* Conventions of the model                                                *)
(*  - a Python list of length k is a function on 0 .. k-1;                 *)
(*  - None is the empty set and a present value v is {v}: a matching entry *)
(*    is None or {l}, best_value is NegInf (= {}) or {v};                  *)
(*  - probabilities are percentages: random() is uniform on [0, 1), so     *)
(*    random() < p can be true iff p > 0 and can be false iff p < 100;     *)
(*  - a sampled utility  sum_utilities / random_samples  is kept as its    *)
(*    numerator sum_utilities, the denominator being the model's           *)
(*    random_samples; sums of such utilities are sums of numerators;       *)
(*  - a call returns Ok(v) or raises: Raise("ValueError_length"), ...      *)
(***************************************************************************)
EXTENDS Integers, FiniteSets, Sequences, TLC

VARIABLES
    model,              \* the model instance handed to the optimizer / queried
    memoization,        \* model._memoization, flattened: <<l, p, key>> or <<l, key>> -> value
    answers,            \* history: every <<cache index, value>> a per-locality query returned
    probe,              \* history: the last utility_for_matching call and its outcome
    alg,                \* which entry point runs: "greedy" | "additive" | "random" | "query"
    pc,                 \* position in the running function
    locality_per_agent, \* greedy_algorithm: the working matching
    matching,           \* additive_optimization / best_of_random: the working matching
    caps_remaining,     \* greedy_algorithm / best_of_random
    loops_left,         \* iterations the running `for _ in range(...)` still has to do
    scan,               \* greedy: pairs (i, l) of the inner loops already passed; additive: probes done
    best_pair,          \* greedy_algorithm
    best_value,         \* greedy_algorithm
    pairs_remaining,    \* best_of_random
    chosen_agent,       \* best_of_random: the i drawn, while the inner loop draws l
    best_matching,      \* best_of_random
    best_utility,       \* best_of_random
    objective,          \* additive_optimization: the utility of each probed pair, in probe order
    outcome             \* what the function returned or raised ("running" before)

vars == <<model, memoization, answers, probe, alg, pc, locality_per_agent, matching,
          caps_remaining, loops_left, scan, best_pair, best_value, pairs_remaining,
          chosen_agent, best_matching, best_utility, objective, outcome>>

----------------------------------------------------------------------------
(* Bounds of the model *)

MaxAgents == 2
MaxLocalities == 2
MaxCap == 1
MaxSamples == 2
MaxJobs == 1
MaxProfessions == 1
MaxTrials == 2
MaxQueries == 2

----------------------------------------------------------------------------
(* Python values *)

None == {}
Some(v) == {v}
Val(e) == CHOOSE v \in e : TRUE
NegInf == {}

Range0(k) == 0 .. (k - 1)
PyLen(xs) == Cardinality(DOMAIN xs)
EmptyList == [i \in {} |-> 0]
ListOf(k, v) == [i \in Range0(k) |-> v]

Ok(v) == [tag |-> "ok", value |-> v, err |-> ""]
Raise(e) == [tag |-> "raise", value |-> 0, err |-> e]

Min(a, b) == IF a <= b THEN a ELSE b

RECURSIVE SumOver(_, _)
SumOver(S, f) ==
    IF S = {} THEN 0
    ELSE LET x == CHOOSE y \in S : TRUE IN f[x] + SumOver(S \ {x}, f)

(* list[l] for a list of length n: Python accepts -n <= l < n, a negative l
   counting from the end; anything else raises IndexError. *)
IndexInRange(l, n) == (-n) <= l /\ l < n
NormIndex(l, n) == IF l < 0 THEN l + n ELSE l

(* sorted(xs) of a sequence of integers, by insertion. *)
RECURSIVE InsertSorted(_, _)
InsertSorted(x, s) ==
    IF s = <<>> THEN <<x>>
    ELSE IF x <= Head(s) THEN <<x>> \o s
    ELSE <<Head(s)>> \o InsertSorted(x, Tail(s))

RECURSIVE sorted(_)
sorted(s) == IF s = <<>> THEN <<>> ELSE InsertSorted(Head(s), sorted(Tail(s)))

(* The elements of a finite set of integers in increasing order: the order in
   which `for i, l in enumerate(matching)` appends agents to a group. *)
RECURSIVE Ascending(_)
Ascending(S) ==
    IF S = {} THEN <<>>
    ELSE LET mn == CHOOSE x \in S : \A y \in S : x <= y
         IN <<mn>> \o Ascending(S \ {mn})

SeqRange(s) == {s[k] : k \in DOMAIN s}

(* The outcomes of `random() < prob`. *)
random_below(prob) == {b \in BOOLEAN : (b => prob > 0) /\ (~b => prob < 100)}

(* The sums of k values drawn from S, one per sample. *)
RECURSIVE SumsOf(_, _)
SumsOf(k, S) == IF k = 0 THEN {0} ELSE {a + b : a \in S, b \in SumsOf(k - 1, S)}

----------------------------------------------------------------------------
(* models.py: the model classes *)

AdditiveModel(num_agents, locality_caps, utility_matrix) ==
    [kind |-> "AdditiveModel", num_agents |-> num_agents,
     locality_caps |-> locality_caps, utility_matrix |-> utility_matrix]

RetroactiveCorrectionModel(num_agents, locality_caps, num_professions, professions, qualification_probabilities, correction_functions, random_samples) ==
    [kind |-> "RetroactiveCorrectionModel", num_agents |-> num_agents,
     locality_caps |-> locality_caps, num_professions |-> num_professions,
     professions |-> professions,
     qualification_probabilities |-> qualification_probabilities,
     correction_functions |-> correction_functions,
     random_samples |-> random_samples]

InterviewModel(num_agents, locality_caps, num_professions, professions, job_numbers, compatibility_probabilities, random_samples) ==
    [kind |-> "InterviewModel", num_agents |-> num_agents,
     locality_caps |-> locality_caps, num_professions |-> num_professions,
     professions |-> professions, job_numbers |-> job_numbers,
     compatibility_probabilities |-> compatibility_probabilities,
     random_samples |-> random_samples]

CoordinationModel(num_agents, locality_caps, locality_num_jobs, compatibility_probabilities, random_samples) ==
    [kind |-> "CoordinationModel", num_agents |-> num_agents,
     locality_caps |-> locality_caps, locality_num_jobs |-> locality_num_jobs,
     compatibility_probabilities |-> compatibility_probabilities,
     random_samples |-> random_samples]

(* self._memoization right after __init__: every dictionary empty. *)
EmptyMemoization == EmptyList

NumLocalities(self) == PyLen(self.locality_caps)

(* Model.check_valid_matching: Ok(0) when it returns, the exception otherwise.
   The second test is the source's `not (l >= 0 or l < len(self.locality_caps))`;
   the counting loop indexes locality_usage[l] as Python does. *)
check_valid_matching(self, m) ==
    LET n == NumLocalities(self)
        assigned == {i \in DOMAIN m : m[i] # None}
    IN  IF PyLen(m) # self.num_agents
          THEN Raise("ValueError_length")
        ELSE IF \E i \in assigned : ~(Val(m[i]) >= 0 \/ Val(m[i]) < n)
          THEN Raise("ValueError_index")
        ELSE IF \E i \in assigned : ~IndexInRange(Val(m[i]), n)
          THEN Raise("IndexError")
        ELSE LET locality_usage ==
                     [l \in Range0(n) |->
                        Cardinality({i \in assigned : NormIndex(Val(m[i]), n) = l})]
             IN  IF \E l \in Range0(n) : locality_usage[l] > self.locality_caps[l]
                   THEN Raise("ValueError_cap")
                   ELSE Ok(0)

(* The agents a checked matching places in locality l, in enumeration order. *)
AgentsAt(self, m, l) ==
    Ascending({i \in DOMAIN m :
                 m[i] # None /\ NormIndex(Val(m[i]), NumLocalities(self)) = l})

AgentsAtProfession(self, m, l, p) ==
    Ascending({i \in SeqRange(AgentsAt(self, m, l)) : self.professions[i] = p})

(* AdditiveModel.utility_for_matching, after the check. *)
AdditiveUtility(self, m) ==
    LET assigned == {i \in DOMAIN m : m[i] # None}
    IN  SumOver(assigned,
                [i \in assigned |->
                   self.utility_matrix[i][NormIndex(Val(m[i]), NumLocalities(self))]])

(* graph.maximum_bipartite_matching(): the size of a largest set of edges no
   two of which share an agent or a job. *)
IsMatching(M) == \A e \in M : \A f \in M : e # f => (e[1] # f[1] /\ e[2] # f[2])

maximum_bipartite_matching(edges) ==
    LET sizes == {Cardinality(M) : M \in {X \in SUBSET edges : IsMatching(X)}}
    IN  CHOOSE k \in sizes : \A j \in sizes : j <= k

(* CoordinationModel._utility_at_locality: the values one sample can add to
   sum_utilities for the agents in `agents` (a tuple) at locality l. *)
CoordinationSample(self, l, agents) ==
    LET num_jobs == self.locality_num_jobs[l]
        pairs == {<<i, j>> : i \in SeqRange(agents), j \in Range0(num_jobs)}
        P(e) == self.compatibility_probabilities[e[1]][l][e[2]]
        surely == {e \in pairs : random_below(P(e)) = {TRUE}}
        maybe == {e \in pairs : random_below(P(e)) = BOOLEAN}
    IN  {maximum_bipartite_matching(surely \cup E) : E \in SUBSET maybe}

(* RetroactiveCorrectionModel._utility_at_locality_profession: one sample. *)
RetroactiveSample(self, l, p, probs) ==
    LET surely == Cardinality({k \in DOMAIN probs : random_below(probs[k]) = {TRUE}})
        maybe == Cardinality({k \in DOMAIN probs : random_below(probs[k]) = BOOLEAN})
    IN  {self.correction_functions[l][p][num_qualified] :
           num_qualified \in surely .. (surely + maybe)}

(* InterviewModel._utility_at_locality_profession: the hires one sample can
   make when the applicants come in the order `order`: an applicant is hired
   when one of the num_jobs attempts succeeds. *)
RECURSIVE InterviewHires(_, _)
InterviewHires(order, num_jobs) ==
    IF order = <<>> THEN {0}
    ELSE LET hired == IF num_jobs = 0 THEN {FALSE} ELSE random_below(Head(order))
         IN  UNION {{(IF h THEN 1 ELSE 0) + rest :
                        rest \in InterviewHires(Tail(order),
                                                IF h THEN num_jobs - 1 ELSE num_jobs)} :
                    h \in hired}

(* shuffle(mutable_probs): every order of the list. *)
Shuffles(s) ==
    LET n == Len(s)
        perms == {f \in [1 .. n -> 1 .. n] : \A a, b \in 1 .. n : a # b => f[a] # f[b]}
    IN  {[k \in 1 .. n |-> s[f[k]]] : f \in perms}

InterviewSample(self, l, p, probs) ==
    UNION {InterviewHires(order, self.job_numbers[l][p]) : order \in Shuffles(probs)}

(* The index of a cache entry: <<l, agents>> in the coordination model,
   <<l, p, probs>> in the other two. *)
CacheIndexes(self, m) ==
    CASE self.kind = "CoordinationModel" ->
           {<<l, sorted(AgentsAt(self, m, l))>> : l \in Range0(NumLocalities(self))}
      [] self.kind = "RetroactiveCorrectionModel" ->
           {<<l, p, sorted([k \in DOMAIN AgentsAtProfession(self, m, l, p) |->
                              self.qualification_probabilities[
                                  AgentsAtProfession(self, m, l, p)[k]][l]])>> :
              l \in Range0(NumLocalities(self)), p \in Range0(self.num_professions)}
      [] self.kind = "InterviewModel" ->
           {<<l, p, sorted([k \in DOMAIN AgentsAtProfession(self, m, l, p) |->
                              self.compatibility_probabilities[
                                  AgentsAtProfession(self, m, l, p)[k]]])>> :
              l \in Range0(NumLocalities(self)), p \in Range0(self.num_professions)}
      [] OTHER -> {}

(* The sum_utilities the sampling loop can reach for a cache index. *)
SampledSums(self, idx) ==
    SumsOf(self.random_samples,
           CASE self.kind = "CoordinationModel" -> CoordinationSample(self, idx[1], idx[2])
             [] self.kind = "RetroactiveCorrectionModel" ->
                  RetroactiveSample(self, idx[1], idx[2], idx[3])
             [] OTHER -> InterviewSample(self, idx[1], idx[2], idx[3]))

(* A lookup that never finds the entry: every query samples again. *)
CacheHit_never(memo, idx) == FALSE

(* `if key in self._memoization[l]...: return it`. *)
CacheHit(memo, idx) == idx \in DOMAIN memo

(* The random draws of one utility_for_matching call: a sum_utilities for each
   index the call has to sample. *)
RECURSIVE DrawsFor(_, _)
DrawsFor(self, missing) ==
    IF missing = {} THEN {EmptyList}
    ELSE LET idx == CHOOSE x \in missing : TRUE
         IN  {(idx :> v) @@ d : v \in SampledSums(self, idx),
                                d \in DrawsFor(self, missing \ {idx})}

Draws(self, memo, m) ==
    IF check_valid_matching(self, m).tag # "ok" THEN {EmptyList}
    ELSE DrawsFor(self, {idx \in CacheIndexes(self, m) : ~CacheHit(memo, idx)})

(* What a per-locality query returns and leaves in the cache: the cached value
   on a hit, else the sampled value, stored under the index. *)
AfterQueries(self, memo, m, draws) ==
    LET asked == CacheIndexes(self, m)
    IN  [idx \in (DOMAIN memo) \cup asked |->
           IF idx \in asked /\ ~CacheHit(memo, idx) THEN draws[idx] ELSE memo[idx]]

(* How often utility_for_matching adds the value of one cache index: the
   coordination model adds it inside `for _ in range(self.random_samples)`. *)
Additions(self) ==
    IF self.kind = "CoordinationModel" THEN Range0(self.random_samples) ELSE {0}

(* utility_for_matching(matching) of every model class: the result, the cache
   afterwards, the per-locality answers given and those of them that came
   from the cache. *)
utility_for_matching(self, memo, m, draws) ==
    LET checked == check_valid_matching(self, m)
    IN  IF checked.tag # "ok"
          THEN [res |-> checked, memo |-> memo, answered |-> {}, hits |-> {}]
        ELSE IF self.kind = "AdditiveModel"
          THEN [res |-> Ok(AdditiveUtility(self, m)), memo |-> memo, answered |-> {},
                hits |-> {}]
        ELSE LET after == AfterQueries(self, memo, m, draws)
                 asked == CacheIndexes(self, m)
                 terms == asked \X Additions(self)
             IN  [res |-> Ok(SumOver(terms, [t \in terms |-> after[t[1]]])),
                  memo |-> after,
                  answered |-> {<<idx, after[idx]>> : idx \in asked},
                  hits |-> {idx \in asked : CacheHit(memo, idx)}]

(* A call site passing `nargs` arguments besides self: every class defines
   utility_for_matching(self, matching), so any other count is a TypeError
   raised before the body runs. *)
Call(self, memo, m, nargs, draws) ==
    IF nargs # 1
      THEN [res |-> Raise("TypeError"), memo |-> memo, answered |-> {}, hits |-> {}]
      ELSE utility_for_matching(self, memo, m, draws)

CallDraws(self, memo, m, nargs) ==
    IF nargs # 1 THEN {EmptyList} ELSE Draws(self, memo, m)

----------------------------------------------------------------------------
(* The model instances the specifications start from *)

ProbValues == {0, 50, 100}

CapLists == UNION {[Range0(k) -> 0 .. MaxCap] : k \in 0 .. MaxLocalities}

(* utility_matrix[i][l] for n agents and k localities. *)
UtilityMatrices(n, k) ==
    {[i \in Range0(n) |-> [l \in Range0(k) |-> 0]],
     [i \in Range0(n) |-> [l \in Range0(k) |-> -1]],
     [i \in Range0(n) |-> [l \in Range0(k) |-> i + l]],
     [i \in Range0(n) |-> [l \in Range0(k) |-> IF i = l THEN 4 ELSE 1]],
     [i \in Range0(n) |-> [l \in Range0(k) |-> 5 - (2 * i) - (3 * l)]]}

(* correction_functions[l][p], as the table of its values on 0 .. MaxAgents. *)
CorrectionTables ==
    {[c \in 0 .. MaxAgents |-> c], [c \in 0 .. MaxAgents |-> 2 * Min(c, 1)]}

AdditiveModels ==
    UNION {UNION {{AdditiveModel(n, caps, um) : um \in UtilityMatrices(n, PyLen(caps))} :
                  caps \in CapLists} : n \in 0 .. MaxAgents}

(* The sampled models with n agents and capacities caps whose agents have the
   probabilities q[i] (in every locality, for every job). *)
CoordinationModels(n, caps, q) ==
    {CoordinationModel(n, caps, ListOf(PyLen(caps), jobs),
                       [i \in Range0(n) |-> ListOf(PyLen(caps), ListOf(jobs, q[i]))],
                       samples) :
        jobs \in 0 .. MaxJobs, samples \in 1 .. MaxSamples}

RetroactiveCorrectionModels(n, caps, q) ==
    UNION {{RetroactiveCorrectionModel(n, caps, np, professions,
                                       [i \in Range0(n) |-> ListOf(PyLen(caps), q[i])],
                                       ListOf(PyLen(caps), ListOf(np, table)), samples) :
               professions \in [Range0(n) -> Range0(np)],
               table \in CorrectionTables, samples \in 1 .. MaxSamples} :
           np \in 1 .. MaxProfessions}

InterviewModels(n, caps, q) ==
    UNION {{InterviewModel(n, caps, np, professions,
                           ListOf(PyLen(caps), ListOf(np, jobs)), q, samples) :
               professions \in [Range0(n) -> Range0(np)],
               jobs \in 0 .. MaxJobs, samples \in 1 .. MaxSamples} :
           np \in 1 .. MaxProfessions}

SampledModels(probs) ==
    UNION {UNION {UNION {CoordinationModels(n, caps, q)
                            \cup RetroactiveCorrectionModels(n, caps, q)
                            \cup InterviewModels(n, caps, q) :
                         q \in [Range0(n) -> probs]} :
                  caps \in CapLists} : n \in 0 .. MaxAgents}

(* The models handed to the optimizers: the additive ones, and of each
   sampled class the instances with one place in every locality whose
   agents qualify surely (or, every second one, never), so that their
   estimates do not depend on the draws. *)
UnitCapLists == {ListOf(k, 1) : k \in 0 .. MaxLocalities}

SureProbabilities(n) ==
    {[i \in Range0(n) |-> 100], [i \in Range0(n) |-> IF i % 2 = 0 THEN 100 ELSE 0]}

SureModels(n, caps, q) ==
    LET k == PyLen(caps)
        professions == [i \in Range0(n) |-> i % MaxProfessions]
        table == [c \in 0 .. MaxAgents |-> 2 * Min(c, 1)]
    IN  {CoordinationModel(n, caps, ListOf(k, MaxJobs),
                           [i \in Range0(n) |-> ListOf(k, ListOf(MaxJobs, q[i]))],
                           MaxSamples),
         RetroactiveCorrectionModel(n, caps, MaxProfessions, professions,
                                    [i \in Range0(n) |-> ListOf(k, q[i])],
                                    ListOf(k, ListOf(MaxProfessions, table)), MaxSamples),
         InterviewModel(n, caps, MaxProfessions, professions,
                        ListOf(k, ListOf(MaxProfessions, MaxJobs)), q, MaxSamples)}

OptimizerModels ==
    AdditiveModels
      \cup UNION {UNION {UNION {SureModels(n, caps, q) : q \in SureProbabilities(n)} :
                         caps \in UnitCapLists} : n \in 0 .. MaxAgents}

----------------------------------------------------------------------------
(* A caller of model.utility_for_matching *)

(* What the running function has done so far: still running, returned the
   pair (working matching, value), or raised. *)
Running == [status |-> "running", value |-> 0, err |-> ""]
Returned(v) == [status |-> "returned", value |-> v, err |-> ""]
Raised(e) == [status |-> "raised", value |-> 0, err |-> e]

NoProbe == [matching |-> EmptyList, nargs |-> 0, res |-> Raise("none"), hits |-> {}]

(* The variables no function has touched yet. *)
Start(a) ==
    /\ alg = a
    /\ memoization = EmptyMemoization
    /\ answers = {}
    /\ probe = NoProbe
    /\ scan = 0
    /\ best_pair = None
    /\ best_value = NegInf
    /\ pairs_remaining = 0
    /\ chosen_agent = None
    /\ best_matching = None
    /\ best_utility = NegInf
    /\ objective = <<>>
    /\ outcome = Running

Idle(a) ==
    /\ Start(a)
    /\ locality_per_agent = EmptyList
    /\ matching = EmptyList
    /\ caps_remaining = EmptyList
    /\ loops_left = 0

(* What a call leaves behind: the cache, and the histories. *)
CallEffects(r, m, nargs) ==
    /\ memoization' = r.memo
    /\ answers' = answers \cup r.answered
    /\ probe' = [matching |-> m, nargs |-> nargs, res |-> r.res, hits |-> r.hits]

(* The arguments tried: every list of the right length whose entries are None
   or an integer from -(n+1) to n (n localities), and two lists of a wrong
   length. *)
QueryPool(self) ==
    LET k == NumLocalities(self)
        entries == {None} \cup {Some(l) : l \in (-(k + 1)) .. k}
    IN  [Range0(self.num_agents) -> entries]
          \cup {ListOf(self.num_agents + 1, None)}
          \cup {ListOf(j, None) : j \in {self.num_agents - 1} \cap Nat}

QueryInit ==
    /\ model \in AdditiveModels \cup SampledModels(ProbValues)
    /\ Idle("query")
    /\ pc = "ready"

(* One call model.utility_for_matching(m). *)
Query ==
    /\ alg = "query"
    /\ pc = "ready"
    /\ loops_left < MaxQueries
    /\ \E m \in QueryPool(model) :
         \E draws \in CallDraws(model, memoization, m, 1) :
            CallEffects(Call(model, memoization, m, 1, draws), m, 1)
    /\ loops_left' = loops_left + 1
    /\ UNCHANGED <<model, alg, pc, locality_per_agent, matching, caps_remaining, scan,
                   best_pair, best_value, pairs_remaining, chosen_agent, best_matching,
                   best_utility, objective, outcome>>

QueryNext == Query

QuerySpec == QueryInit /\ [][QueryNext]_vars

----------------------------------------------------------------------------
(* methods.py: greedy_algorithm *)

SumCaps(caps) == SumOver(DOMAIN caps, caps)

(* One iteration for every agent, whatever the capacities. *)
NumIterations_per_agent(self) == self.num_agents

(* range(min(model.num_agents, sum(caps))): the number of iterations. *)
NumIterations(self) == Min(self.num_agents, SumCaps(self.locality_caps))

(* The pairs (i, l) in the order of the nested loops: agent-major. *)
NumPairs(self) == self.num_agents * NumLocalities(self)
PairAt(self, k) == <<k \div NumLocalities(self), k % NumLocalities(self)>>

(* best_value = 0 at the head of an iteration. *)
InitialBestValue_zero == Some(0)

(* best_value = -inf at the head of an iteration. *)
InitialBestValue == NegInf

(* `if utility >= best_value`. *)
Improves_or_equals(utility, best) == best = NegInf \/ utility >= Val(best)

(* `if utility > best_value`. *)
Improves(utility, best) == best = NegInf \/ utility > Val(best)

(* The pairs the inner loops do not skip: `if match is not None: continue`
   and `if spaces <= 0: continue`. *)
Tried(lpa, caps, pair) == lpa[pair[1]] = None /\ ~(caps[pair[2]] <= 0)

(* The pairs still to try in this iteration. *)
ToTry ==
    {k \in scan .. (NumPairs(model) - 1) :
        Tried(locality_per_agent, caps_remaining, PairAt(model, k))}

(* The place is not taken. *)
TakePlace_forgotten(caps, l) == caps

(* caps_remaining[l] -= 1 *)
TakePlace(caps, l) == [caps EXCEPT ![l] = @ - 1]

GreedyInit ==
    /\ model \in OptimizerModels
    /\ Start("greedy")
    /\ locality_per_agent = ListOf(model.num_agents, None)
    /\ caps_remaining = model.locality_caps
    /\ loops_left = NumIterations(model)
    /\ matching = EmptyList
    /\ pc = "g_for"

(* The head of an iteration of the outer loop. *)
G_Iterate ==
    /\ alg = "greedy" /\ pc = "g_for" /\ loops_left > 0
    /\ best_pair' = None
    /\ best_value' = InitialBestValue
    /\ scan' = 0
    /\ pc' = "g_scan"
    /\ UNCHANGED <<model, memoization, answers, probe, alg, locality_per_agent, matching,
                   caps_remaining, loops_left, pairs_remaining, chosen_agent,
                   best_matching, best_utility, objective, outcome>>

(* The next pair the inner loops try: assign, evaluate, revert, compare.  An
   exception of the evaluation leaves the function with the pair assigned. *)
G_Try ==
    /\ alg = "greedy" /\ pc = "g_scan" /\ ToTry # {}
    /\ LET k == CHOOSE x \in ToTry : \A y \in ToTry : x <= y
           i == PairAt(model, k)[1]
           l == PairAt(model, k)[2]
           tentative == [locality_per_agent EXCEPT ![i] = Some(l)]
       IN  \E draws \in CallDraws(model, memoization, tentative, 1) :
              LET r == Call(model, memoization, tentative, 1, draws)
              IN  /\ CallEffects(r, tentative, 1)
                  /\ IF r.res.tag = "ok"
                       THEN /\ locality_per_agent' = locality_per_agent
                            /\ scan' = k + 1
                            /\ best_pair' = IF Improves(r.res.value, best_value)
                                              THEN Some(<<i, l>>) ELSE best_pair
                            /\ best_value' = IF Improves(r.res.value, best_value)
                                               THEN Some(r.res.value) ELSE best_value
                            /\ UNCHANGED <<pc, outcome>>
                       ELSE /\ locality_per_agent' = tentative
                            /\ outcome' = Raised(r.res.err)
                            /\ pc' = "done"
                            /\ UNCHANGED <<scan, best_pair, best_value>>
    /\ UNCHANGED <<model, alg, matching, caps_remaining, loops_left, pairs_remaining,
                   chosen_agent, best_matching, best_utility, objective>>

(* After the inner loops: the assertion, then the commit. *)
G_Commit ==
    /\ alg = "greedy" /\ pc = "g_scan" /\ ToTry = {}
    /\ IF best_pair = None
         THEN /\ outcome' = Raised("AssertionError")
              /\ pc' = "done"
              /\ UNCHANGED <<locality_per_agent, caps_remaining, loops_left>>
         ELSE /\ locality_per_agent' =
                    [locality_per_agent EXCEPT ![Val(best_pair)[1]] = Some(Val(best_pair)[2])]
              /\ caps_remaining' = TakePlace(caps_remaining, Val(best_pair)[2])
              /\ loops_left' = loops_left - 1
              /\ pc' = "g_for"
              /\ UNCHANGED outcome
    /\ UNCHANGED <<model, memoization, answers, probe, alg, matching, scan, best_pair,
                   best_value, pairs_remaining, chosen_agent, best_matching, best_utility,
                   objective>>

(* The arguments of the call in the return statement:
   model.utility_for_matching(locality_per_agent, False). *)
ReturnCallArgs == 2

(* return locality_per_agent, model.utility_for_matching(locality_per_agent, False) *)
ReturnWith(m) ==
    \E draws \in CallDraws(model, memoization, m, ReturnCallArgs) :
       LET r == Call(model, memoization, m, ReturnCallArgs, draws)
       IN  /\ CallEffects(r, m, ReturnCallArgs)
           /\ outcome' = IF r.res.tag = "ok" THEN Returned(r.res.value)
                                               ELSE Raised(r.res.err)
           /\ pc' = "done"

G_Return ==
    /\ alg = "greedy" /\ pc = "g_for" /\ loops_left = 0
    /\ ReturnWith(locality_per_agent)
    /\ UNCHANGED <<model, alg, locality_per_agent, matching, caps_remaining, loops_left,
                   scan, best_pair, best_value, pairs_remaining, chosen_agent,
                   best_matching, best_utility, objective>>

GreedyNext == G_Iterate \/ G_Try \/ G_Commit \/ G_Return

----------------------------------------------------------------------------
(* methods.py: additive_optimization *)

(* The integer program handed to the solver: one variable per pair, each
   0 <= v <= 1 and integer; at most one locality per agent; at most
   locality_caps[l] agents per locality. *)
Feasible(self) ==
    LET agents == Range0(self.num_agents)
        localities == Range0(NumLocalities(self))
    IN  {x \in [agents -> [localities -> {0, 1}]] :
           /\ \A i \in agents : SumOver(localities, x[i]) <= 1
           /\ \A l \in localities :
                 SumOver(agents, [i \in agents |-> x[i][l]]) <= self.locality_caps[l]}

(* objective = sum of utility * v, the utilities in probe order. *)
ObjectiveValue(self, coefficients, x) ==
    LET pairs == Range0(NumPairs(self))
    IN  SumOver(pairs, [k \in pairs |->
                          coefficients[k + 1] * x[PairAt(self, k)[1]][PairAt(self, k)[2]]])

(* gm.optimize() with status OPTIMAL: any feasible point of greatest objective. *)
OptimalSolutions(self, coefficients) ==
    LET value == [x \in Feasible(self) |-> ObjectiveValue(self, coefficients, x)]
        best == CHOOSE v \in {value[x] : x \in Feasible(self)} :
                   \A x \in Feasible(self) : value[x] <= v
    IN  {x \in Feasible(self) : value[x] = best}

(* The read-back loop: the first l with variables[i][l].X > 0.5, if any. *)
ReadBack(self, m, x) ==
    [i \in Range0(self.num_agents) |->
       LET set == {l \in Range0(NumLocalities(self)) : x[i][l] = 1}
       IN  IF set = {} THEN m[i]
           ELSE Some(CHOOSE l \in set : \A j \in set : l <= j)]

AdditiveInit ==
    /\ model \in OptimizerModels
    /\ Start("additive")
    /\ matching = ListOf(model.num_agents, None)
    /\ locality_per_agent = EmptyList
    /\ caps_remaining = EmptyList
    /\ loops_left = 0
    /\ pc = "a_probe"

(* One pass of the inner probing loop, for the pair numbered `scan`: assign,
   evaluate, revert, add utility * v to the objective. *)
A_Probe ==
    /\ alg = "additive" /\ pc = "a_probe" /\ scan < NumPairs(model)
    /\ LET i == PairAt(model, scan)[1]
           l == PairAt(model, scan)[2]
           probed == [matching EXCEPT ![i] = Some(l)]
       IN  \E draws \in CallDraws(model, memoization, probed, 1) :
              LET r == Call(model, memoization, probed, 1, draws)
              IN  /\ CallEffects(r, probed, 1)
                  /\ IF r.res.tag = "ok"
                       THEN /\ matching' = matching
                            /\ objective' = Append(objective, r.res.value)
                            /\ scan' = scan + 1
                            /\ UNCHANGED <<pc, outcome>>
                       ELSE /\ matching' = probed
                            /\ outcome' = Raised(r.res.err)
                            /\ pc' = "done"
                            /\ UNCHANGED <<objective, scan>>
    /\ UNCHANGED <<model, alg, locality_per_agent, caps_remaining, loops_left, best_pair,
                   best_value, pairs_remaining, chosen_agent, best_matching, best_utility>>

(* The capacity constraints, the solve and the read-back. *)
A_Optimize ==
    /\ alg = "additive" /\ pc = "a_probe" /\ scan = NumPairs(model)
    /\ \E x \in OptimalSolutions(model, objective) :
          matching' = ReadBack(model, matching, x)
    /\ pc' = "a_return"
    /\ UNCHANGED <<model, memoization, answers, probe, alg, locality_per_agent,
                   caps_remaining, loops_left, scan, best_pair, best_value,
                   pairs_remaining, chosen_agent, best_matching, best_utility, objective,
                   outcome>>

A_Return ==
    /\ alg = "additive" /\ pc = "a_return"
    /\ ReturnWith(matching)
    /\ UNCHANGED <<model, alg, locality_per_agent, matching, caps_remaining, loops_left,
                   scan, best_pair, best_value, pairs_remaining, chosen_agent,
                   best_matching, best_utility, objective>>

AdditiveNext == A_Probe \/ A_Optimize \/ A_Return

----------------------------------------------------------------------------
(* methods.py: best_of_random *)

RandomInit ==
    /\ model \in OptimizerModels
    /\ Start("random")
    /\ loops_left \in {0, MaxTrials}
    /\ matching = EmptyList
    /\ locality_per_agent = EmptyList
    /\ caps_remaining = EmptyList
    /\ pc = "r_for"

(* The counter is not decremented. *)
OnePairLess_forgotten(k) == k

(* pairs_remaining -= 1 *)
OnePairLess(k) == k - 1

(* The head of a trial: a fresh matching, the capacities, the pairs to place. *)
R_Trial ==
    /\ alg = "random" /\ pc = "r_for" /\ loops_left > 0
    /\ matching' = ListOf(model.num_agents, None)
    /\ caps_remaining' = model.locality_caps
    /\ pairs_remaining' = Min(model.num_agents, SumCaps(model.locality_caps))
    /\ pc' = "r_agent"
    /\ UNCHANGED <<model, memoization, answers, probe, alg, locality_per_agent, loops_left,
                   scan, best_pair, best_value, chosen_agent, best_matching, best_utility,
                   objective, outcome>>

(* i = randrange(model.num_agents); an assigned agent is drawn again. *)
R_DrawAgent(i) ==
    /\ alg = "random" /\ pc = "r_agent" /\ pairs_remaining > 0
    /\ IF matching[i] # None
         THEN UNCHANGED <<chosen_agent, pc>>
         ELSE chosen_agent' = Some(i) /\ pc' = "r_locality"
    /\ UNCHANGED <<model, memoization, answers, probe, alg, locality_per_agent, matching,
                   caps_remaining, loops_left, scan, best_pair, best_value,
                   pairs_remaining, best_matching, best_utility, objective, outcome>>

(* l = randrange(len(caps_remaining)); a full locality is drawn again. *)
R_DrawLocality(l) ==
    /\ alg = "random" /\ pc = "r_locality"
    /\ IF caps_remaining[l] > 0
         THEN /\ matching' = [matching EXCEPT ![Val(chosen_agent)] = Some(l)]
              /\ caps_remaining' = TakePlace(caps_remaining, l)
              /\ pairs_remaining' = OnePairLess(pairs_remaining)
              /\ chosen_agent' = None
              /\ pc' = "r_agent"
         ELSE UNCHANGED <<matching, caps_remaining, pairs_remaining, chosen_agent, pc>>
    /\ UNCHANGED <<model, memoization, answers, probe, alg, locality_per_agent, loops_left,
                   scan, best_pair, best_value, best_matching, best_utility, objective,
                   outcome>>

(* After the while loop: score the matching and keep it if it is better. *)
R_Score ==
    /\ alg = "random" /\ pc = "r_agent" /\ pairs_remaining = 0
    /\ \E draws \in CallDraws(model, memoization, matching, 1) :
          LET r == Call(model, memoization, matching, 1, draws)
          IN  /\ CallEffects(r, matching, 1)
              /\ IF r.res.tag = "ok"
                   THEN /\ best_utility' = IF Improves(r.res.value, best_utility)
                                             THEN Some(r.res.value) ELSE best_utility
                        /\ best_matching' = IF Improves(r.res.value, best_utility)
                                              THEN Some(matching) ELSE best_matching
                        /\ loops_left' = loops_left - 1
                        /\ pc' = "r_for"
                        /\ UNCHANGED outcome
                   ELSE /\ outcome' = Raised(r.res.err)
                        /\ pc' = "done"
                        /\ UNCHANGED <<best_utility, best_matching, loops_left>>
    /\ UNCHANGED <<model, alg, locality_per_agent, matching, caps_remaining, scan,
                   best_pair, best_value, pairs_remaining, chosen_agent, objective>>

(* return best_matching, model.utility_for_matching(best_matching, False) *)
R_Return ==
    /\ alg = "random" /\ pc = "r_for" /\ loops_left = 0
    /\ ReturnWith(IF best_matching = None THEN EmptyList ELSE Val(best_matching))
    /\ UNCHANGED <<model, alg, locality_per_agent, matching, caps_remaining, loops_left,
                   scan, best_pair, best_value, pairs_remaining, chosen_agent,
                   best_matching, best_utility, objective>>

RandomNext ==
    \/ R_Trial
    \/ \E i \in Range0(model.num_agents) : R_DrawAgent(i)
    \/ \E l \in Range0(NumLocalities(model)) : R_DrawLocality(l)
    \/ R_Score
    \/ R_Return

(* best_of_random under fair random choice: randrange does not return
   rejected values for ever. *)
R_Draw ==
    \/ \E i \in Range0(model.num_agents) : R_DrawAgent(i)
    \/ \E l \in Range0(NumLocalities(model)) : R_DrawLocality(l)

FairRandomSpec == RandomInit /\ [][RandomNext]_vars /\ WF_vars(R_Draw)

----------------------------------------------------------------------------
(* The specifications *)

Init == GreedyInit \/ AdditiveInit \/ RandomInit

Next == GreedyNext \/ AdditiveNext \/ RandomNext

Spec == Init /\ [][Next]_vars

----------------------------------------------------------------------------
(* Properties of the model classes *)

(* The entries of a list that are no locality index: neither None nor in
   [0, len(locality_caps)). *)
BadEntries(self, m) ==
    {i \in DOMAIN m : m[i] # None /\ ~(Val(m[i]) \in Range0(NumLocalities(self)))}

(* C3: a matching of the right length with an entry outside
   [0, len(locality_caps)) is rejected with the ValueError for an invalid
   locality index: it is not accepted, not scored, and no other exception
   is raised. *)
C3_InvalidIndexRejected ==
    (/\ probe.nargs = 1
     /\ PyLen(probe.matching) = model.num_agents
     /\ BadEntries(model, probe.matching) # {})
        => probe.res = Raise("ValueError_index")

(* C4: for a valid matching the coordination model returns the sum over the
   localities of the sample mean for the agents placed there, each locality
   counted once (numerators: the sum of the cached sum_utilities), and so at
   most the sum over the localities of min(agents placed, jobs) (numerators:
   random_samples times that). *)
C4_SumOfSampleMeans ==
    (/\ model.kind = "CoordinationModel"
     /\ probe.nargs = 1
     /\ BadEntries(model, probe.matching) = {}
     /\ probe.res.tag = "ok")
        => LET asked == CacheIndexes(model, probe.matching)
               places == [idx \in asked |->
                            Min(Len(idx[2]), model.locality_num_jobs[idx[1]])]
           IN  /\ probe.res.value = SumOver(asked, [idx \in asked |-> memoization[idx]])
               /\ probe.res.value <= model.random_samples * SumOver(asked, places)

(* C6: every value a per-locality (or per-locality-and-profession) query has
   ever returned for a cache index is the value the cache holds for that
   index now: two queries with the same key return the same value whatever
   was drawn in between, and an entry, once written, is neither overwritten
   nor removed. *)
C6_MemoizationIdempotent ==
    \A a \in answers : a[1] \in DOMAIN memoization /\ memoization[a[1]] = a[2]

(* C6 happens: a call was answered from the cache for an index whose sampled
   value depends on the draws. *)
C6_Witness ==
    \E idx \in probe.hits : Cardinality(SampledSums(model, idx)) > 1

----------------------------------------------------------------------------
(* Properties of the optimizers *)

(* The value of a matching in a model whose draws are certain (every
   probability 0 or 1): what any call returns for it. *)
SureUtility(self, m) ==
    LET draws == CHOOSE d \in Draws(self, EmptyMemoization, m) : TRUE
    IN  utility_for_matching(self, EmptyMemoization, m, draws).res.value

NumAssigned(m, l) == Cardinality({i \in DOMAIN m : m[i] = Some(l)})
Committed(m) == Cardinality({i \in DOMAIN m : m[i] # None})

(* A valid matching: the right length, entries None or a locality index, no
   locality over its capacity; and check_valid_matching agrees. *)
ValidMatching(self, m) ==
    /\ PyLen(m) = self.num_agents
    /\ BadEntries(self, m) = {}
    /\ \A l \in Range0(NumLocalities(self)) : NumAssigned(m, l) <= self.locality_caps[l]
    /\ check_valid_matching(self, m) = Ok(0)

(* caps_remaining[l] = locality_caps[l] - the agents committed to l, >= 0. *)
CapsConsistent(self, m, caps) ==
    /\ PyLen(caps) = NumLocalities(self)
    /\ \A l \in Range0(NumLocalities(self)) :
          caps[l] = self.locality_caps[l] - NumAssigned(m, l) /\ caps[l] >= 0

(* The function has executed its return statement. *)
AtReturn == pc = "done" /\ probe.nargs = ReturnCallArgs

(* C1: when an optimizer reaches its return statement, the evaluation of the
   final matching succeeds and the function returns the pair (matching,
   value of that evaluation), for every model variant. *)
C1_FinalEvaluationSucceeds ==
    AtReturn => /\ outcome.status = "returned"
                /\ probe.res.tag = "ok"
                /\ outcome.value = probe.res.value

(* C2: the matching an optimizer builds is valid: in greedy_algorithm at
   every step, in best_of_random at every step of a trial and for the kept
   matching, in additive_optimization after the read-back; and in
   greedy_algorithm and best_of_random caps_remaining[l] is locality_caps[l]
   minus the number of agents committed to l, never negative. *)
C2_MatchingsValid ==
    /\ alg = "greedy" =>
          /\ ValidMatching(model, locality_per_agent)
          /\ CapsConsistent(model, locality_per_agent, caps_remaining)
    /\ (alg = "random" /\ pc \in {"r_agent", "r_locality"}) =>
          /\ ValidMatching(model, matching)
          /\ CapsConsistent(model, matching, caps_remaining)
    /\ (alg = "random" /\ best_matching # None) => ValidMatching(model, Val(best_matching))
    /\ (alg = "additive" /\ (pc = "a_return" \/ AtReturn)) => ValidMatching(model, matching)

(* C2 happens: greedy_algorithm has finished its loop with a locality filled
   to its capacity and an agent left without a place. *)
C2_Witness ==
    /\ alg = "greedy" /\ pc = "done"
    /\ \E i \in DOMAIN locality_per_agent : locality_per_agent[i] = None
    /\ \E l \in DOMAIN caps_remaining :
          caps_remaining[l] = 0 /\ NumAssigned(locality_per_agent, l) > 0

(* C5: every probe of additive_optimization scores the matching that assigns
   exactly one pair, none of the probes fails, and the working matching is
   all-None again after each probe. *)
C5_ProbesNeverFail ==
    (alg = "additive" /\ probe.nargs = 1) =>
        /\ Committed(probe.matching) = 1
        /\ probe.res.tag = "ok"
        /\ pc \in {"a_probe", "done"} => matching = ListOf(model.num_agents, None)

(* The iteration of greedy_algorithm that has just committed best_pair: the
   partial matching and the capacities it started from, the pairs its inner
   loops do not skip, and the utility of the tentative matching of a pair. *)
JustCommitted == alg = "greedy" /\ pc = "g_for" /\ best_pair # None
Before == [locality_per_agent EXCEPT ![Val(best_pair)[1]] = None]
CapsBefore == [caps_remaining EXCEPT ![Val(best_pair)[2]] = @ + 1]
Candidates ==
    {pair \in Range0(model.num_agents) \X Range0(NumLocalities(model)) :
        Before[pair[1]] = None /\ CapsBefore[pair[2]] > 0}
Tentative(pair) == SureUtility(model, [Before EXCEPT ![pair[1]] = Some(pair[2])])
EnumeratedBefore(p, q) == p[1] < q[1] \/ (p[1] = q[1] /\ p[2] <= q[2])

(* C7 as stated: a pair is committed only if its tentative matching improves
   on the utility of the partial matching the iteration started from
   (otherwise the assertion fails). *)
C7_CommitOnlyIfImproving ==
    JustCommitted => Val(best_value) > SureUtility(model, Before)

(* C7, amended: the assertion never fails in an iteration that evaluates a
   pair: the first pair evaluated beats -inf, so after any evaluation
   best_pair is set, and greedy_algorithm commits the best pair whether or
   not it improves on the current partial matching. *)
C7_AssertionOnlyWithoutCandidates ==
    alg = "greedy" =>
        /\ outcome.err # "AssertionError"
        /\ (pc = "g_scan" /\ scan > 0) => best_pair # None
        /\ (pc = "g_scan" /\ ToTry = {}) => best_pair # None

(* C7 happens: a pair was committed although no pair improved on the partial
   matching. *)
C7_Witness ==
    /\ JustCommitted
    /\ \A pair \in Candidates : Tentative(pair) <= SureUtility(model, Before)

(* C9: the pair committed has an unassigned agent and a locality with
   remaining capacity, its tentative matching has the greatest utility among
   all such pairs, and among the pairs of that utility it is the first in
   agent-major, locality-minor order; the matching evaluated in the inner
   loops is always the partial matching plus one such pair. *)
C9_GreatestFirst ==
    /\ JustCommitted =>
          /\ Val(best_pair) \in Candidates
          /\ Val(best_value) = Tentative(Val(best_pair))
          /\ \A pair \in Candidates :
                /\ Tentative(pair) <= Val(best_value)
                /\ Tentative(pair) = Val(best_value) => EnumeratedBefore(Val(best_pair), pair)
    /\ (alg = "greedy" /\ pc = "g_scan" /\ scan > 0) =>
          \E i \in Range0(model.num_agents), l \in Range0(NumLocalities(model)) :
             /\ locality_per_agent[i] = None
             /\ caps_remaining[l] > 0
             /\ probe.matching = [locality_per_agent EXCEPT ![i] = Some(l)]

(* C9 happens: the pair committed tied with a pair enumerated later. *)
C9_Witness ==
    /\ JustCommitted
    /\ \E pair \in Candidates \ {Val(best_pair)} : Tentative(pair) = Val(best_value)

(* The steps greedy_algorithm can still take, at most: the return, and for
   every iteration left its head, its inner loops and its commit. *)
GreedyMeasure ==
    LET iteration == NumPairs(model) + 2
    IN  IF pc = "done" THEN 0
        ELSE IF pc = "g_for" THEN loops_left * iteration + 1
        ELSE (loops_left - 1) * iteration + 2 + (NumPairs(model) - scan)

C8_LoopBounded ==
    alg = "greedy" =>
        /\ Committed(locality_per_agent) + loops_left
              = Min(model.num_agents, SumCaps(model.locality_caps))
        /\ loops_left >= 0
        /\ GreedyMeasure >= 0
        /\ ((pc = "g_for" /\ loops_left = 0) \/ pc = "done") =>
              \/ \A i \in DOMAIN locality_per_agent : locality_per_agent[i] # None
              \/ \A l \in DOMAIN caps_remaining : caps_remaining[l] = 0

(* C8: greedy_algorithm has committed one pair per finished iteration, at
   most min(num_agents, sum(locality_caps)) in all; when the loop has ended,
   every agent is assigned or every locality is full; and the loop ends:
   every step of the function lowers a measure that is never negative. *)
C8_GreedyTerminates ==
    /\ []C8_LoopBounded
    /\ [][alg = "greedy" => GreedyMeasure' < GreedyMeasure]_vars

(* C8 happens: the loop has ended after two iterations. *)
C8_Witness ==
    alg = "greedy" /\ pc = "done" /\ Committed(locality_per_agent) = MaxAgents

(* Inside a trial of best_of_random, and at the end of its while loop. *)
InTrial == alg = "random" /\ pc \in {"r_agent", "r_locality"}
TrialFilled ==
    /\ pc = "r_agent" /\ pairs_remaining = 0
    /\ Committed(matching) = Min(model.num_agents, SumCaps(model.locality_caps))

C10_Progress ==
    /\ (InTrial /\ pairs_remaining > 0) =>
          /\ \E i \in DOMAIN matching : matching[i] = None
          /\ \E l \in DOMAIN caps_remaining : caps_remaining[l] > 0
    /\ (InTrial /\ pairs_remaining = 0) => TrialFilled
    /\ (alg = "random" /\ pc = "r_for" /\ probe.nargs = 1) =>
          /\ best_utility # NegInf /\ best_matching # None
          /\ probe.res.value <= Val(best_utility)
          /\ SureUtility(model, Val(best_matching)) = Val(best_utility)

(* C10: in a trial with pairs_remaining > 0 an unassigned agent and a
   locality with remaining capacity exist; under fair random choice the
   while loop of every trial ends, with min(num_agents, sum(locality_caps))
   agents assigned; the score of the trial just scored does not exceed
   best_utility, which is the score of best_matching and is never lowered. *)
C10_TrialsTerminateBestKept ==
    /\ []C10_Progress
    /\ [][(alg = "random" /\ best_utility # NegInf) =>
             (best_utility' # NegInf /\ Val(best_utility') >= Val(best_utility))]_vars
    /\ (InTrial ~> TrialFilled)

(* C10 happens: a trial scored less than an earlier one, which was kept. *)
C10_Witness ==
    /\ alg = "random" /\ pc = "r_for" /\ probe.nargs = 1
    /\ best_utility # NegInf /\ probe.res.value < Val(best_utility)

====
